---- MODULE Spec2Model ----
(***************************************************************************)
(* Model of StreamingVAD (src/streaming_vad/streaming_vad.py): the frame   *)
(* buffer that feeds the VAD unit, the hysteresis counter, the resting     *)
(* state and the rollback/output buffer, as mutated by process and reset.  *)
(* The engine object is a record whose fields carry the attribute names of *)
(* the class.  A frame is a sequence of bytes; the n-th frame submitted    *)
(* since construction or reset holds the byte n in every position, so      *)
(* frames are told apart in the payloads.                                  *)
(***************************************************************************)
EXTENDS Integers, Sequences, FiniteSets, TLC

\* ---------------------------------------------------------------- bounds
MaxStartThresh == 3     \* start_frame_num_thresh ranges over 1..MaxStartThresh
MaxRollback == 3        \* start_frame_rollback ranges over 0..MaxRollback
MaxEndThresh == 2       \* end_frame_num_thresh ranges over 1..MaxEndThresh
MaxRatio == 2           \* vad_unit_frame_ratio ranges over 1..MaxRatio
MaxCalls == 9           \* process calls since construction or reset
SampleWidth == 1        \* bytes per sample (scaled down from 2)
SamplesPerFrame == 1    \* samples per engine frame (scaled down from 160)
MaxPre == 3             \* process calls before the reset in SpecReset
MaxPost == 4            \* process calls after the reset in SpecReset

\* ------------------------------------------------ defaults of __init__
DefaultStartFrameNumThresh == 5
DefaultStartFrameRollback == 10
DefaultEndFrameNumThresh == 30

VARIABLES
    stream_vad,     \* the StreamingVAD object under test
    inputs,         \* frames submitted since construction or reset
    results,        \* vad_result of each of those process calls
    invocations,    \* VAD unit invocations: [at, window, result]
    events,         \* return value of each of those process calls
    phase,          \* "single", or "pre" / "post" in SpecReset
    vad_unit,       \* SpecReset: threshold of the deterministic VAD unit
    fresh_vad,      \* SpecReset: a freshly constructed engine, same config
    fresh_events,   \* SpecReset: its return values
    pre_calls,      \* SpecReset: process calls made before the reset
    raised,         \* exception raised by the last call, "" if none
    ctor            \* SpecConstruct: the arguments given to __init__

vars == <<stream_vad, inputs, results, invocations, events, phase,
          vad_unit, fresh_vad, fresh_events, pre_calls, raised,
          ctor>>

\* ------------------------------------------------------------- helpers
\* SpecReset: a frame is silent (every byte 0) or loud (every byte 1)
Samples == {0, 1}

Frame(n) == [i \in 1..(SampleWidth * SamplesPerFrame) |-> n]

RECURSIVE Join(_)
Join(buffer) ==
    IF buffer = <<>> THEN <<>> ELSE Head(buffer) \o Join(Tail(buffer))

RECURSIVE Sum(_)
Sum(s) == IF s = <<>> THEN 0 ELSE Head(s) + Sum(Tail(s))

VADData(state, data) == [state |-> state, data |-> data]

\* the VAD unit as a deterministic function of its window: confidence
\* (here the window's energy) compared with a threshold
VADUnitProcess(threshold, data) == Sum(data) > threshold

\* ---------------------------------------------------------- StreamingVAD
StreamingVAD(samples_per_frame, start_frame_num_thresh, start_frame_rollback, end_frame_num_thresh, output_idle_frame, unit_samples_per_frame) ==
    [ samples_per_frame |-> samples_per_frame,
      start_frame_num_thresh |-> start_frame_num_thresh,
      start_frame_rollback |-> start_frame_rollback,
      end_frame_num_thresh |-> end_frame_num_thresh,
      output_idle_frame |-> output_idle_frame,
      actual_frame_size_in_bytes |-> SampleWidth * samples_per_frame,
      vad_unit_frame_ratio |-> unit_samples_per_frame \div samples_per_frame,
      vad_unit_frame_buffer |-> <<>>,
      prev_vad_unit_result |-> FALSE,
      vad_unit_result_count |-> 0,
      vad_state |-> "Idle",
      vad_result_buffer |-> <<>>,
      vad_unit_count |-> -1 ]        \* -1: the attribute does not exist yet

\* reset that forgets to clear the frame buffer of the VAD unit
resetKeepsFrameBuffer(self) ==
    [self EXCEPT !.prev_vad_unit_result = FALSE,
                 !.vad_unit_result_count = 0,
                 !.vad_state = "Idle",
                 !.vad_result_buffer = <<>>]

\* reset that forgets the previous result of the VAD unit
resetKeepsPrevResult(self) ==
    [self EXCEPT !.vad_unit_frame_buffer = <<>>,
                 !.vad_unit_result_count = 0,
                 !.vad_state = "Idle",
                 !.vad_result_buffer = <<>>]

reset(self) ==
    [self EXCEPT !.vad_unit_frame_buffer = <<>>,
                 !.prev_vad_unit_result = FALSE,
                 !.vad_unit_result_count = 0,
                 !.vad_state = "Idle",
                 !.vad_result_buffer = <<>>]

\* frame buffer that is not cleared after the VAD unit was asked
FrameBufferStepNoClear(self, audio_data, unit) ==
    LET buffer == Append(self.vad_unit_frame_buffer, audio_data)
        invoked == Len(buffer) = self.vad_unit_frame_ratio
        vad_result == IF invoked THEN unit[Join(buffer)]
                                 ELSE self.prev_vad_unit_result
    IN [ self |-> [self EXCEPT
                     !.vad_unit_frame_buffer = buffer,
                     !.prev_vad_unit_result = vad_result],
         vad_result |-> vad_result,
         invoked |-> invoked,
         window |-> IF invoked THEN Join(buffer) ELSE <<>> ]

\* process, lines 136-144: buffer the frame, ask the VAD unit when the
\* buffer holds a whole window, otherwise carry the previous result forward
FrameBufferStep(self, audio_data, unit) ==
    LET buffer == Append(self.vad_unit_frame_buffer, audio_data)
        invoked == Len(buffer) = self.vad_unit_frame_ratio
        vad_result == IF invoked THEN unit[Join(buffer)]
                                 ELSE self.prev_vad_unit_result
    IN [ self |-> [self EXCEPT
                     !.vad_unit_frame_buffer = IF invoked THEN <<>> ELSE buffer,
                     !.prev_vad_unit_result = vad_result],
         vad_result |-> vad_result,
         invoked |-> invoked,
         window |-> IF invoked THEN Join(buffer) ELSE <<>> ]

\* result buffer that pops its newest frame instead of its oldest
ResultBufferStepPopsNewest(self, audio_data) ==
    LET buffer == Append(self.vad_result_buffer, audio_data)
    IN IF Len(buffer) > self.start_frame_rollback
       THEN [ self |-> [self EXCEPT !.vad_result_buffer =
                                        SubSeq(buffer, 1, Len(buffer) - 1)],
              overflow_data |-> <<buffer[Len(buffer)]>> ]
       ELSE [ self |-> [self EXCEPT !.vad_result_buffer = buffer],
              overflow_data |-> <<>> ]

\* result buffer that pops as soon as it holds start_frame_rollback frames
ResultBufferStepPopsEarly(self, audio_data) ==
    LET buffer == Append(self.vad_result_buffer, audio_data)
    IN IF Len(buffer) >= self.start_frame_rollback
       THEN [ self |-> [self EXCEPT !.vad_result_buffer = Tail(buffer)],
              overflow_data |-> <<Head(buffer)>> ]
       ELSE [ self |-> [self EXCEPT !.vad_result_buffer = buffer],
              overflow_data |-> <<>> ]

\* result buffer that pops one frame too late
ResultBufferStepPopsLate(self, audio_data) ==
    LET buffer == Append(self.vad_result_buffer, audio_data)
    IN IF Len(buffer) > self.start_frame_rollback + 1
       THEN [ self |-> [self EXCEPT !.vad_result_buffer = Tail(buffer)],
              overflow_data |-> <<Head(buffer)>> ]
       ELSE [ self |-> [self EXCEPT !.vad_result_buffer = buffer],
              overflow_data |-> <<>> ]

\* process, lines 146-151: append to the result buffer, pop the oldest frame
\* when it grew past start_frame_rollback.  overflow_data is <<>> for None
\* and <<frame>> otherwise.
ResultBufferStep(self, audio_data) ==
    LET buffer == Append(self.vad_result_buffer, audio_data)
    IN IF Len(buffer) > self.start_frame_rollback
       THEN [ self |-> [self EXCEPT !.vad_result_buffer = Tail(buffer)],
              overflow_data |-> <<Head(buffer)>> ]
       ELSE [ self |-> [self EXCEPT !.vad_result_buffer = buffer],
              overflow_data |-> <<>> ]

\* Idle branch that starts only above the threshold (> for >=)
IdleBranchStrict(self, vad_result, overflow_data) ==
    LET count == IF vad_result THEN self.vad_unit_result_count + 1 ELSE 0
        counted == [self EXCEPT !.vad_unit_result_count = count]
    IN IF count > self.start_frame_num_thresh
       THEN [ self |-> [counted EXCEPT !.vad_result_buffer = <<>>,
                                       !.vad_unit_count = 0,
                                       !.vad_state = "Continue"],
              return_value |-> VADData("Started", counted.vad_result_buffer) ]
       ELSE [ self |-> counted,
              return_value |->
                  VADData("Idle",
                          IF self.output_idle_frame /\ overflow_data # <<>>
                          THEN overflow_data ELSE <<>>) ]

\* Idle branch that stores the event tag Started as the resting state
IdleBranchRestsInStarted(self, vad_result, overflow_data) ==
    LET count == IF vad_result THEN self.vad_unit_result_count + 1 ELSE 0
        counted == [self EXCEPT !.vad_unit_result_count = count]
    IN IF count >= self.start_frame_num_thresh
       THEN [ self |-> [counted EXCEPT !.vad_result_buffer = <<>>,
                                       !.vad_unit_count = 0,
                                       !.vad_state = "Started"],
              return_value |-> VADData("Started", counted.vad_result_buffer) ]
       ELSE [ self |-> counted,
              return_value |->
                  VADData("Idle",
                          IF self.output_idle_frame /\ overflow_data # <<>>
                          THEN overflow_data ELSE <<>>) ]

\* Idle branch that outputs the overflow frame whatever output_idle_frame is
IdleBranchAlwaysOutputs(self, vad_result, overflow_data) ==
    LET count == IF vad_result THEN self.vad_unit_result_count + 1 ELSE 0
        counted == [self EXCEPT !.vad_unit_result_count = count]
    IN IF count >= self.start_frame_num_thresh
       THEN [ self |-> [counted EXCEPT !.vad_result_buffer = <<>>,
                                       !.vad_unit_count = 0,
                                       !.vad_state = "Continue"],
              return_value |-> VADData("Started", counted.vad_result_buffer) ]
       ELSE [ self |-> counted,
              return_value |->
                  VADData("Idle",
                          IF overflow_data # <<>>
                          THEN overflow_data ELSE <<>>) ]

\* process, lines 154-166
IdleBranch(self, vad_result, overflow_data) ==
    LET count == IF vad_result THEN self.vad_unit_result_count + 1 ELSE 0
        counted == [self EXCEPT !.vad_unit_result_count = count]
    IN IF count >= self.start_frame_num_thresh
       THEN [ self |-> [counted EXCEPT !.vad_result_buffer = <<>>,
                                       !.vad_unit_count = 0,
                                       !.vad_state = "Continue"],
              return_value |-> VADData("Started", counted.vad_result_buffer) ]
       ELSE [ self |-> counted,
              return_value |->
                  VADData("Idle",
                          IF self.output_idle_frame /\ overflow_data # <<>>
                          THEN overflow_data ELSE <<>>) ]

\* Continue branch that leaves the result buffer uncleared at Ended
ContinueBranchKeepsBuffer(self, vad_result) ==
    LET count == IF vad_result THEN 0 ELSE self.vad_unit_result_count + 1
        counted == [self EXCEPT !.vad_unit_result_count = count]
    IN IF count >= self.end_frame_num_thresh
       THEN [ self |-> [counted EXCEPT !.vad_unit_count = 0,
                                       !.vad_state = "Idle"],
              return_value |-> VADData("Ended", counted.vad_result_buffer) ]
       ELSE [ self |-> [counted EXCEPT !.vad_result_buffer = <<>>],
              return_value |-> VADData("Continue", counted.vad_result_buffer) ]

\* Continue branch that stays in Continue after Ended
ContinueBranchStaysContinue(self, vad_result) ==
    LET count == IF vad_result THEN 0 ELSE self.vad_unit_result_count + 1
        counted == [self EXCEPT !.vad_unit_result_count = count]
    IN IF count >= self.end_frame_num_thresh
       THEN [ self |-> [counted EXCEPT !.vad_result_buffer = <<>>,
                                       !.vad_unit_count = 0],
              return_value |-> VADData("Ended", counted.vad_result_buffer) ]
       ELSE [ self |-> [counted EXCEPT !.vad_result_buffer = <<>>],
              return_value |-> VADData("Continue", counted.vad_result_buffer) ]

\* process, lines 168-179
ContinueBranch(self, vad_result) ==
    LET count == IF vad_result THEN 0 ELSE self.vad_unit_result_count + 1
        counted == [self EXCEPT !.vad_unit_result_count = count]
    IN IF count >= self.end_frame_num_thresh
       THEN [ self |-> [counted EXCEPT !.vad_result_buffer = <<>>,
                                       !.vad_unit_count = 0,
                                       !.vad_state = "Idle"],
              return_value |-> VADData("Ended", counted.vad_result_buffer) ]
       ELSE [ self |-> [counted EXCEPT !.vad_result_buffer = <<>>],
              return_value |-> VADData("Continue", counted.vad_result_buffer) ]

\* process that checks the frame size only after buffering the frame
processChecksLate(self, audio_data, unit) ==
    LET fb == FrameBufferStep(self, audio_data, unit)
        rb == ResultBufferStep(fb.self, audio_data)
        out == IF rb.self.vad_state = "Idle"
               THEN IdleBranch(rb.self, fb.vad_result, rb.overflow_data)
               ELSE IF rb.self.vad_state = "Continue"
               THEN ContinueBranch(rb.self, fb.vad_result)
               ELSE [ self |-> rb.self,
                      return_value |-> VADData("ValueError", <<>>) ]
    IN IF Len(audio_data) # self.actual_frame_size_in_bytes
       THEN [ self |-> [self EXCEPT !.vad_unit_frame_buffer =
                                        Append(@, audio_data)],
              return_value |-> VADData("AssertionError", <<>>),
              vad_result |-> FALSE, invoked |-> FALSE, window |-> <<>> ]
       ELSE [ self |-> out.self, return_value |-> out.return_value,
              vad_result |-> fb.vad_result, invoked |-> fb.invoked,
              window |-> fb.window ]

\* process, lines 131-182.  unit is the VAD unit as a function of its window.
\* A raised exception is the return value tagged with the exception's name.
process(self, audio_data, unit) ==
    IF Len(audio_data) # self.actual_frame_size_in_bytes
    THEN [ self |-> self, return_value |-> VADData("AssertionError", <<>>),
           vad_result |-> FALSE, invoked |-> FALSE, window |-> <<>> ]
    ELSE
    LET fb == FrameBufferStep(self, audio_data, unit)
        rb == ResultBufferStep(fb.self, audio_data)
        out == IF rb.self.vad_state = "Idle"
               THEN IdleBranch(rb.self, fb.vad_result, rb.overflow_data)
               ELSE IF rb.self.vad_state = "Continue"
               THEN ContinueBranch(rb.self, fb.vad_result)
               ELSE [ self |-> rb.self,
                      return_value |-> VADData("ValueError", <<>>) ]
    IN [ self |-> out.self, return_value |-> out.return_value,
         vad_result |-> fb.vad_result, invoked |-> fb.invoked,
         window |-> fb.window ]

\* ------------------------------------------------------- configurations
DefaultConfig ==
    StreamingVAD(SamplesPerFrame, DefaultStartFrameNumThresh,
                 DefaultStartFrameRollback, DefaultEndFrameNumThresh,
                 FALSE, SamplesPerFrame)

SmallConfigs ==
    { StreamingVAD(SamplesPerFrame, s, b, e, o, SamplesPerFrame * r) :
        s \in 1..MaxStartThresh, b \in 0..MaxRollback, e \in 1..MaxEndThresh,
        o \in BOOLEAN, r \in 1..MaxRatio }

Configs == SmallConfigs \cup {DefaultConfig}

\* ------------------------------------------------------------------ Spec
Init ==
    /\ stream_vad \in Configs
    /\ inputs = <<>>
    /\ results = <<>>
    /\ invocations = <<>>
    /\ events = <<>>
    /\ phase = "single"
    /\ vad_unit = 0
    /\ fresh_vad = stream_vad
    /\ fresh_events = <<>>
    /\ pre_calls = 0
    /\ raised = ""
    /\ ctor = <<>>

\* one call of process with a valid frame; r is what the VAD unit answers
\* if this call invokes it
Process ==
    /\ phase = "single"
    /\ Len(inputs) < MaxCalls
    /\ \E r \in BOOLEAN :
        LET audio_data == Frame(Len(inputs) + 1)
            window == Join(Append(stream_vad.vad_unit_frame_buffer, audio_data))
            step == process(stream_vad, audio_data, [w \in {window} |-> r])
        IN /\ stream_vad' = step.self
           /\ inputs' = Append(inputs, audio_data)
           /\ results' = Append(results, step.vad_result)
           /\ invocations' =
                IF step.invoked
                THEN Append(invocations, [at |-> Len(inputs) + 1,
                                          window |-> step.window,
                                          result |-> r])
                ELSE invocations
           /\ events' = Append(events, step.return_value)
    /\ raised' = ""
    /\ UNCHANGED <<phase, vad_unit, fresh_vad, fresh_events, pre_calls, ctor>>

\* frames whose length is not actual_frame_size_in_bytes: one byte short,
\* one byte long
InvalidFrames ==
    { SubSeq(Frame(0), 1, Len(Frame(0)) - 1), Append(Frame(0), 0) }

\* one call of process with a frame of the wrong length: the exception
\* reaches the caller, who gets no return value
ProcessInvalid ==
    /\ phase = "single"
    /\ \E audio_data \in InvalidFrames :
        LET window == Join(Append(stream_vad.vad_unit_frame_buffer, audio_data))
            step == process(stream_vad, audio_data, [w \in {window} |-> FALSE])
        IN /\ stream_vad' = step.self
           /\ raised' = step.return_value.state
    /\ UNCHANGED <<inputs, results, invocations, events, phase, vad_unit,
                   fresh_vad, fresh_events, pre_calls, ctor>>

\* one call of reset; the histories start over
Reset ==
    /\ phase = "single"
    /\ inputs # <<>>
    /\ stream_vad' = reset(stream_vad)
    /\ inputs' = <<>>
    /\ results' = <<>>
    /\ invocations' = <<>>
    /\ events' = <<>>
    /\ raised' = ""
    /\ UNCHANGED <<phase, vad_unit, fresh_vad, fresh_events, pre_calls, ctor>>

Next == Process \/ ProcessInvalid \/ Reset

Spec == Init /\ [][Next]_vars

\* ------------------------------------------------------------- SpecReset
\* An engine that has processed any frames is reset and then fed the same
\* frames as a freshly constructed engine of the same configuration.  The
\* VAD unit is one deterministic function of the window for both.
UnitFor(self, audio_data) ==
    LET window == Join(Append(self.vad_unit_frame_buffer, audio_data))
    IN [w \in {window} |-> VADUnitProcess(vad_unit, w)]

InitReset ==
    /\ stream_vad \in Configs
    /\ inputs = <<>>
    /\ results = <<>>
    /\ invocations = <<>>
    /\ events = <<>>
    /\ phase = "pre"
    /\ vad_unit \in Samples
    /\ fresh_vad = stream_vad
    /\ fresh_events = <<>>
    /\ pre_calls = 0
    /\ raised = ""
    /\ ctor = <<>>

ProcessPre ==
    /\ phase = "pre"
    /\ pre_calls < MaxPre
    /\ \E v \in Samples :
        LET audio_data == Frame(v)
        IN stream_vad' =
             process(stream_vad, audio_data, UnitFor(stream_vad, audio_data)).self
    /\ pre_calls' = pre_calls + 1
    /\ UNCHANGED <<inputs, results, invocations, events, phase, vad_unit,
                   fresh_vad, fresh_events, raised, ctor>>

ResetUsed ==
    /\ phase = "pre"
    /\ stream_vad' = reset(stream_vad)
    /\ phase' = "post"
    /\ UNCHANGED <<inputs, results, invocations, events, vad_unit, fresh_vad,
                   fresh_events, pre_calls, raised, ctor>>

ProcessBoth ==
    /\ phase = "post"
    /\ Len(inputs) < MaxPost
    /\ \E v \in Samples :
        LET audio_data == Frame(v)
            step == process(stream_vad, audio_data,
                            UnitFor(stream_vad, audio_data))
            fresh == process(fresh_vad, audio_data,
                             UnitFor(fresh_vad, audio_data))
        IN /\ stream_vad' = step.self
           /\ fresh_vad' = fresh.self
           /\ inputs' = Append(inputs, audio_data)
           /\ results' = Append(results, step.vad_result)
           /\ invocations' =
                IF step.invoked
                THEN Append(invocations,
                            [at |-> Len(inputs) + 1,
                             window |-> step.window,
                             result |-> VADUnitProcess(vad_unit, step.window)])
                ELSE invocations
           /\ events' = Append(events, step.return_value)
           /\ fresh_events' = Append(fresh_events, fresh.return_value)
    /\ UNCHANGED <<phase, vad_unit, pre_calls, raised, ctor>>

NextReset == ProcessPre \/ ResetUsed \/ ProcessBoth

SpecReset == InitReset /\ [][NextReset]_vars

\* ------------------------------------------------- vocabulary of the claims
Calls == 1..Len(events)

Min(a, b) == IF a < b THEN a ELSE b

\* length of the run of positive (negative) per-frame results ending at call i
RECURSIVE PosRun(_)
PosRun(i) == IF i = 0 \/ ~results[i] THEN 0 ELSE 1 + PosRun(i - 1)

RECURSIVE NegRun(_)
NegRun(i) == IF i = 0 \/ results[i] THEN 0 ELSE 1 + NegRun(i - 1)

\* the last call before i that returned an event tagged state, 0 if none
RECURSIVE LastBefore(_, _)
LastBefore(state, i) ==
    IF i <= 1 THEN 0
    ELSE IF events[i - 1].state = state THEN i - 1
    ELSE LastBefore(state, i - 1)

Tags == { events[i].state : i \in Calls }

\* C1 (as claimed): with start_frame_num_thresh > 1, Started is returned only
\* by a call whose last start_frame_num_thresh per-frame results, its own
\* included, were all positive.
C1_StartHysteresis ==
    stream_vad.start_frame_num_thresh > 1 =>
        \A i \in Calls :
            events[i].state = "Started" =>
                PosRun(i) >= stream_vad.start_frame_num_thresh

\* C2 (as claimed): inside a segment, Ended is returned exactly by the call
\* that completes end_frame_num_thresh consecutive negative per-frame results
\* counted from the call after Started, and by no earlier call.
C2_EndDebounce ==
    \A i \in Calls :
        events[i].state \in {"Continue", "Ended"} =>
            ( events[i].state = "Ended" <=>
                Min(NegRun(i), i - LastBefore("Started", i))
                    >= stream_vad.end_frame_num_thresh )

\* C3 (as claimed): a Started returned after a run of exactly
\* start_frame_num_thresh positive results carries
\* min(start_frame_rollback, frames submitted since construction or reset)
\* frames, also in a segment that follows an Ended.
C3_RollbackSinceConstruction ==
    \A i \in Calls :
        (events[i].state = "Started"
           /\ PosRun(i) = stream_vad.start_frame_num_thresh) =>
            Len(events[i].data) = Min(stream_vad.start_frame_rollback, i)

\* C3 (amended): such a Started carries min(start_frame_rollback, frames
\* submitted since the last Ended, or since construction or reset when there
\* was none) frames.
C3_RollbackSinceEnded ==
    \A i \in Calls :
        (events[i].state = "Started"
           /\ PosRun(i) = stream_vad.start_frame_num_thresh) =>
            Len(events[i].data) =
                Min(stream_vad.start_frame_rollback, i - LastBefore("Ended", i))

\* a second segment whose Started carries fewer frames than the rollback
\* length although more than that were submitted since construction
C3_Witness ==
    \E i \in Calls :
        /\ events[i].state = "Started"
        /\ PosRun(i) = stream_vad.start_frame_num_thresh
        /\ LastBefore("Ended", i) > 0
        /\ ~results[i - stream_vad.start_frame_num_thresh]
        /\ Len(events[i].data) < stream_vad.start_frame_rollback
        /\ Len(events[i].data) >= 2

\* C4 (as claimed): every Continue and every Ended carries exactly the input
\* frame of its call, for every start_frame_rollback, 0 included.
C4_OneFramePayload ==
    \A i \in Calls :
        events[i].state \in {"Continue", "Ended"} =>
            events[i].data = <<inputs[i]>>

\* C5: after reset, the engine returns for any frame sequence the events
\* (tags and payloads) a freshly constructed engine of the same
\* configuration returns, the VAD unit being one function of the window.
C5_ResetIdempotence ==
    phase = "post" => events = fresh_events

\* the engine had opened a segment before the reset (it holds the attribute
\* that only Started and Ended create, the fresh engine does not), and both
\* have since returned MaxPost events, the last with a frame in its payload
C5_Witness ==
    /\ phase = "post"
    /\ pre_calls = MaxPre
    /\ stream_vad.vad_unit_count = 0
    /\ fresh_vad.vad_unit_count = -1
    /\ Len(events) = MaxPost
    /\ events[Len(events)].data # <<>>

\* number of VAD unit invocations made by the calls 1..i
InvokedUpTo(i) ==
    Cardinality({ j \in 1..Len(invocations) : invocations[j].at <= i })

\* C6 (as claimed): for every window ratio, a Started is preceded by at
\* least start_frame_num_thresh consecutive VAD unit invocations that
\* returned true.
C6_StartAfterUnitInvocations ==
    \A i \in Calls :
        events[i].state = "Started" =>
            LET k == InvokedUpTo(i)
            IN /\ k >= stream_vad.start_frame_num_thresh
               /\ \A j \in (k - stream_vad.start_frame_num_thresh + 1)..k :
                      invocations[j].result

IsDefault ==
    /\ stream_vad.start_frame_num_thresh = DefaultStartFrameNumThresh
    /\ stream_vad.start_frame_rollback = DefaultStartFrameRollback
    /\ stream_vad.end_frame_num_thresh = DefaultEndFrameNumThresh
    /\ ~stream_vad.output_idle_frame
    /\ stream_vad.vad_unit_frame_ratio = 1

Scenario == <<FALSE, FALSE, FALSE, FALSE, TRUE, TRUE, TRUE, TRUE, TRUE>>

\* C7: with window ratio 1, on a fresh or reset engine the first Started is
\* returned exactly by the first call that completes a run of
\* start_frame_num_thresh positive results and every earlier call returns
\* Idle; with the defaults, 4 negative then 5 positive frames give 8 Idle
\* events with empty payload and then Started with a payload of 9 frames.
C7_FirstStarted ==
    stream_vad.vad_unit_frame_ratio = 1 =>
        /\ \A i \in Calls :
               LastBefore("Started", i) = 0 =>
                   events[i].state =
                       IF PosRun(i) >= stream_vad.start_frame_num_thresh
                       THEN "Started" ELSE "Idle"
        /\ (IsDefault /\ results = Scenario) =>
               /\ \A i \in 1..8 : events[i] = VADData("Idle", <<>>)
               /\ events[9].state = "Started"
               /\ Len(events[9].data) = 9

C7_Witness ==
    /\ IsDefault
    /\ results = Scenario
    /\ events[Len(events)].state = "Started"

\* C8: every call returns exactly one event, tagged Idle, Started, Continue
\* or Ended; the stored resting state is always Idle or Continue, so the
\* invalid-state branch is never taken.
C8_OneEventPerCall ==
    /\ Len(events) = Len(inputs)
    /\ \A i \in Calls :
           events[i].state \in {"Idle", "Started", "Continue", "Ended"}
    /\ stream_vad.vad_state \in {"Idle", "Continue"}

C8_Witness ==
    /\ phase = "single"
    /\ Len(events) = MaxCalls
    /\ Tags = {"Idle", "Started", "Continue", "Ended"}

\* frames returned by the calls before i
EmittedBefore(i) ==
    UNION { { events[j].data[k] : k \in 1..Len(events[j].data) } :
            j \in 1..(i - 1) }

\* C9 (as claimed): the payload of a Started is the most recent input
\* frames in arrival order, ends with the current input frame, holds no
\* frame returned earlier and at most start_frame_rollback frames, for
\* every start_frame_rollback >= 0.
C9_StartedPayload ==
    \A i \in Calls :
        events[i].state = "Started" =>
            LET d == events[i].data
                n == Len(d)
            IN /\ n >= 1
               /\ d[n] = inputs[i]
               /\ n <= stream_vad.start_frame_rollback
               /\ d = SubSeq(inputs, i - n + 1, i)
               /\ \A k \in 1..n : d[k] \notin EmittedBefore(i)

\* C9 (amended): the same for every start_frame_rollback >= 1; with
\* start_frame_rollback = 0 the payload is empty.
C9_StartedPayloadAmended ==
    \A i \in Calls :
        events[i].state = "Started" =>
            LET d == events[i].data
                n == Len(d)
            IN /\ stream_vad.start_frame_rollback >= 1 =>
                      (n >= 1 /\ d[n] = inputs[i])
               /\ n <= stream_vad.start_frame_rollback
               /\ d = SubSeq(inputs, i - n + 1, i)
               /\ \A k \in 1..n : d[k] \notin EmittedBefore(i)

\* a Started of a later segment, after frames were returned by Idle,
\* Continue and Ended events, with a rollback shorter than the threshold
C9_Witness ==
    /\ stream_vad.output_idle_frame
    /\ stream_vad.start_frame_rollback >= 1
    /\ stream_vad.start_frame_rollback < stream_vad.start_frame_num_thresh
    /\ \E i \in Calls :
           /\ events[i].state = "Started"
           /\ LastBefore("Ended", i) > 0
           /\ Len(events[i].data) = stream_vad.start_frame_rollback
           /\ events[i - 1].state = "Idle"
           /\ events[i - 1].data # <<>>

\* C10: with output_idle_frame = false every Idle event has an empty payload.
C10_IdleSuppression ==
    ~stream_vad.output_idle_frame =>
        \A i \in Calls : events[i].state = "Idle" => events[i].data = <<>>

\* an Idle call at which the result buffer overflowed
C10_Witness ==
    /\ ~stream_vad.output_idle_frame
    /\ \E i \in Calls :
           /\ events[i].state = "Idle"
           /\ LastBefore("Started", i) = 0
           /\ i > stream_vad.start_frame_rollback

\* C11: with output_idle_frame = true the payload of an Idle event is empty
\* or exactly one frame, the one this call evicted from the result buffer:
\* the frame submitted start_frame_rollback calls before the current one.
\* It is one frame exactly when more than start_frame_rollback frames were
\* submitted since the last Ended (or since construction or reset).
C11_IdlePayload ==
    stream_vad.output_idle_frame =>
        \A i \in Calls :
            events[i].state = "Idle" =>
                events[i].data =
                    IF i - LastBefore("Ended", i) > stream_vad.start_frame_rollback
                    THEN <<inputs[i - stream_vad.start_frame_rollback]>>
                    ELSE <<>>

\* an Idle event of a later segment that returns a frame submitted earlier
C11_Witness ==
    /\ stream_vad.output_idle_frame
    /\ stream_vad.start_frame_rollback >= 2
    /\ \E i \in Calls :
           /\ events[i].state = "Idle"
           /\ LastBefore("Ended", i) > 0
           /\ i > stream_vad.start_frame_rollback
           /\ events[i].data = <<inputs[i - stream_vad.start_frame_rollback]>>

\* C12: a process call with a frame of the wrong length raises, returns no
\* event and leaves the engine (frame buffer, previous result, count, state,
\* result buffer) as it was, so later calls see no trace of it.
\* (The steps that submit no valid frame are the calls with an invalid one.)
C12_InvalidFrame ==
    [][ inputs' = inputs
          => ( /\ raised' = "AssertionError"
               /\ stream_vad' = stream_vad
               /\ events' = events ) ]_vars

\* an invalid call made in the middle of a window and of a segment
C12_Witness ==
    /\ raised = "AssertionError"
    /\ stream_vad.vad_state = "Continue"
    /\ stream_vad.vad_unit_frame_buffer # <<>>
    /\ stream_vad.vad_unit_result_count > 0

\* --------------------------------------------------------- SpecConstruct
\* __init__ applied to arguments drawn from small sets.  Sample rates,
\* widths and frame sizes carry their real values here.
AVAILABLE_VAD_UNITS == {"webrtcvad", "silero"}

\* VADUnitSilero.__init__: fixed rate, width and frame size
VADUnitSilero ==
    [ raised |-> "", sample_rate |-> 16000, sample_width |-> 2,
      samples_per_frame |-> 640 ]

\* VADUnitWebRTC.__init__: rate, width and frame size from its config,
\* asserted to be ones the library accepts
VADUnitWebRTC(config) ==
    IF \/ config.sample_rate \notin {8000, 16000, 32000, 48000}
       \/ config.sample_width \notin {2}
       \/ (1000 * config.samples_per_frame) \div config.sample_rate
              \notin {10, 20, 30}
    THEN [ raised |-> "AssertionError", sample_rate |-> config.sample_rate,
           sample_width |-> config.sample_width,
           samples_per_frame |-> config.samples_per_frame ]
    ELSE [ raised |-> "", sample_rate |-> config.sample_rate,
           sample_width |-> config.sample_width,
           samples_per_frame |-> config.samples_per_frame ]

\* the unit that AVAILABLE_VAD_UNITS[vad_unit_name](**config) builds
VADUnitOf(vad_unit_name, config) ==
    IF vad_unit_name = "silero" THEN VADUnitSilero ELSE VADUnitWebRTC(config)

\* the object a failed construction leaves: none
None == <<>>

\* __init__ without the assert that the unit's frame is a whole multiple
NewStreamingVADNoMultipleCheck(a) ==
    IF a.vad_unit_name \notin AVAILABLE_VAD_UNITS
    THEN [ raised |-> "AssertionError", self |-> None ]
    ELSE IF a.config_kind = "None"
    THEN [ raised |-> "TypeError", self |-> None ]
    ELSE
    LET unit == VADUnitOf(a.vad_unit_name, a.vad_unit_config)
    IN IF unit.raised # ""
       THEN [ raised |-> unit.raised, self |-> None ]
       ELSE IF \/ a.sample_rate # unit.sample_rate
               \/ a.sample_width # unit.sample_width
               \/ a.samples_per_frame > unit.samples_per_frame
       THEN [ raised |-> "AssertionError", self |-> None ]
       ELSE [ raised |-> "",
              self |-> [ StreamingVAD(a.samples_per_frame,
                                      a.start_frame_num_thresh,
                                      a.start_frame_rollback,
                                      a.end_frame_num_thresh,
                                      a.output_idle_frame,
                                      unit.samples_per_frame)
                         EXCEPT !.actual_frame_size_in_bytes =
                                    a.sample_width * a.samples_per_frame ] ]

\* __init__, lines 78-119, on the record a of its arguments.  config_kind
\* tells what vad_unit_config is: a dict, a dataclass object or None (the
\* default); None is an object, so asdict(None) raises TypeError.
NewStreamingVAD(a) ==
    IF a.vad_unit_name \notin AVAILABLE_VAD_UNITS
    THEN [ raised |-> "AssertionError", self |-> None ]
    ELSE IF a.config_kind = "None"
    THEN [ raised |-> "TypeError", self |-> None ]
    ELSE
    LET unit == VADUnitOf(a.vad_unit_name, a.vad_unit_config)
    IN IF unit.raised # ""
       THEN [ raised |-> unit.raised, self |-> None ]
       ELSE IF \/ a.sample_rate # unit.sample_rate
               \/ a.sample_width # unit.sample_width
               \/ a.samples_per_frame > unit.samples_per_frame
               \/ unit.samples_per_frame % a.samples_per_frame # 0
       THEN [ raised |-> "AssertionError", self |-> None ]
       ELSE [ raised |-> "",
              self |-> [ StreamingVAD(a.samples_per_frame,
                                      a.start_frame_num_thresh,
                                      a.start_frame_rollback,
                                      a.end_frame_num_thresh,
                                      a.output_idle_frame,
                                      unit.samples_per_frame)
                         EXCEPT !.actual_frame_size_in_bytes =
                                    a.sample_width * a.samples_per_frame ] ]

UnitConfigs ==
    [ sample_rate : {8000, 16000}, sample_width : {1, 2},
      samples_per_frame : {160, 320, 480} ]

ConstructorArgs ==
    [ sample_rate : {8000, 16000},
      sample_width : {1, 2},
      samples_per_frame : {80, 160, 240, 320, 640, 960},
      start_frame_num_thresh : {DefaultStartFrameNumThresh},
      start_frame_rollback : {DefaultStartFrameRollback},
      end_frame_num_thresh : {DefaultEndFrameNumThresh},
      output_idle_frame : BOOLEAN,
      vad_unit_name : AVAILABLE_VAD_UNITS \cup {"other"},
      config_kind : {"dict", "dataclass", "None"},
      vad_unit_config : UnitConfigs ]

InitConstruct ==
    /\ stream_vad = None
    /\ inputs = <<>>
    /\ results = <<>>
    /\ invocations = <<>>
    /\ events = <<>>
    /\ phase = "new"
    /\ vad_unit = 0
    /\ fresh_vad = None
    /\ fresh_events = <<>>
    /\ pre_calls = 0
    /\ raised = ""
    /\ ctor = <<>>

\* one call of StreamingVAD(...)
Construct ==
    /\ phase = "new"
    /\ \E a \in ConstructorArgs :
        LET made == NewStreamingVAD(a)
        IN /\ ctor' = a
           /\ stream_vad' = made.self
           /\ raised' = made.raised
           /\ phase' = IF made.raised = "" THEN "built" ELSE "failed"
    /\ UNCHANGED <<inputs, results, invocations, events, vad_unit, fresh_vad,
                   fresh_events, pre_calls>>

NextConstruct == Construct

SpecConstruct == InitConstruct /\ [][NextConstruct]_vars

\* what the classifier named by the arguments declares
UnitMeta == VADUnitOf(ctor.vad_unit_name, ctor.vad_unit_config)

\* C13: construction fails when the classifier name is unknown, when sample
\* rate or width differ from the classifier's, when the engine frame is
\* larger than the classifier's or does not divide it; when it succeeds the
\* window ratio is an integer >= 1 and the runtime state is Idle, count 0,
\* last result false, both buffers empty.
C13_Construction ==
    phase # "new" =>
        /\ ctor.vad_unit_name \notin AVAILABLE_VAD_UNITS => raised # ""
        /\ ctor.vad_unit_name \in AVAILABLE_VAD_UNITS =>
             ( ( \/ ctor.sample_rate # UnitMeta.sample_rate
                 \/ ctor.sample_width # UnitMeta.sample_width
                 \/ ctor.samples_per_frame > UnitMeta.samples_per_frame
                 \/ UnitMeta.samples_per_frame % ctor.samples_per_frame # 0 )
               => raised # "" )
        /\ (raised # "") = (phase = "failed")
        /\ raised = "" =>
             /\ stream_vad.vad_unit_frame_ratio >= 1
             /\ stream_vad.vad_unit_frame_ratio * ctor.samples_per_frame
                    = UnitMeta.samples_per_frame
             /\ stream_vad.vad_state = "Idle"
             /\ stream_vad.vad_unit_result_count = 0
             /\ stream_vad.prev_vad_unit_result = FALSE
             /\ stream_vad.vad_unit_frame_buffer = <<>>
             /\ stream_vad.vad_result_buffer = <<>>

\* a construction that succeeds with a classifier window of four frames
C13_Witness ==
    /\ phase = "built"
    /\ raised = ""
    /\ ctor.vad_unit_name = "silero"
    /\ stream_vad.vad_unit_frame_ratio = 4

\* C14 (as claimed): after every call, in Idle the count is the number of
\* consecutive positive results at the end of the frames processed since
\* the engine entered Idle, in Continue the number of consecutive negative
\* results at the end of the frames processed since it entered Continue; so
\* it is 0 right after Started and right after Ended.
C14_CounterSemantics ==
    (phase = "single" /\ events # <<>>) =>
        LET n == Len(events)
        IN stream_vad.vad_unit_result_count =
               IF stream_vad.vad_state = "Idle"
               THEN Min(PosRun(n), n - LastBefore("Ended", n + 1))
               ELSE Min(NegRun(n), n - LastBefore("Started", n + 1))

\* C15: after every call the frame buffer holds fewer than
\* vad_unit_frame_ratio frames (the frames submitted since the last whole
\* window); the VAD unit is invoked on every vad_unit_frame_ratio-th valid
\* frame since construction or reset and on no other, with the concatenation
\* in arrival order of the last vad_unit_frame_ratio frames.
C15_SubBuffering ==
    phase = "single" =>
        LET n == Len(inputs)
            q == stream_vad.vad_unit_frame_ratio
        IN /\ Len(stream_vad.vad_unit_frame_buffer) < q
           /\ stream_vad.vad_unit_frame_buffer =
                  SubSeq(inputs, n - (n % q) + 1, n)
           /\ Len(invocations) = n \div q
           /\ \A k \in 1..Len(invocations) :
                  /\ invocations[k].at = k * q
                  /\ invocations[k].window =
                         Join(SubSeq(inputs, (k - 1) * q + 1, k * q))

\* two windows were handed over and a frame of the third is waiting, with an
\* invalid call just made
C15_Witness ==
    /\ phase = "single"
    /\ stream_vad.vad_unit_frame_ratio = 2
    /\ Len(invocations) = 2
    /\ Len(stream_vad.vad_unit_frame_buffer) = 1
    /\ raised = "AssertionError"

\* C16: on a call that completes no window the result given to the state
\* machine is the answer of the most recent VAD unit invocation, or false
\* when there was none since construction or reset; on a call that
\* completes a window it is the fresh answer.
C16_CarryForward ==
    phase = "single" =>
        \A i \in Calls :
            LET q == stream_vad.vad_unit_frame_ratio
            IN results[i] = IF i < q THEN FALSE
                            ELSE invocations[i \div q].result

\* after a reset that followed a segment: no answer yet on the first call,
\* then a positive answer carried forward to the third call
C16_Witness ==
    /\ phase = "single"
    /\ stream_vad.vad_unit_frame_ratio = 2
    /\ stream_vad.vad_unit_count = 0
    /\ Tags = {"Idle"}
    /\ Len(results) = 3
    /\ results[3]
    /\ Len(invocations) = 1

\* C17: after every call and after reset the result buffer holds at most
\* start_frame_rollback frames, in both resting states; in Continue it is
\* empty after every call.
C17_BufferBound ==
    phase = "single" =>
        /\ Len(stream_vad.vad_result_buffer) <= stream_vad.start_frame_rollback
        /\ stream_vad.vad_state = "Continue" =>
               stream_vad.vad_result_buffer = <<>>

\* a full buffer in Idle after a segment has ended
C17_Witness ==
    /\ phase = "single"
    /\ stream_vad.vad_state = "Idle"
    /\ stream_vad.start_frame_rollback >= 2
    /\ Len(stream_vad.vad_result_buffer) = stream_vad.start_frame_rollback
    /\ "Ended" \in Tags
    /\ Len(events) > stream_vad.start_frame_rollback + 2

\* C18: the first event is Idle or Started; after Idle or Ended comes Idle
\* or Started; after Started or Continue comes Continue or Ended.  Hence
\* Started and Ended alternate beginning with Started, every Continue lies
\* between a Started and the next Ended, and every Idle lies before the
\* first Started or between an Ended and the next Started.
C18_EventOrdering ==
    phase = "single" =>
        \A i \in Calls :
            IF i = 1 \/ events[IF i = 1 THEN 1 ELSE i - 1].state
                            \in {"Idle", "Ended"}
            THEN events[i].state \in {"Idle", "Started"}
            ELSE /\ events[i - 1].state \in {"Started", "Continue"}
                 /\ events[i].state \in {"Continue", "Ended"}

\* two segments: one closed by Ended right after Started, one opened right
\* after an Ended, with Idle and Continue events around them
C18_Witness ==
    /\ phase = "single"
    /\ Tags = {"Idle", "Started", "Continue", "Ended"}
    /\ \E i \in Calls :
           /\ i + 1 \in Calls
           /\ events[i].state = "Ended"
           /\ events[i + 1].state = "Started"
    /\ \E i \in Calls :
           /\ i + 1 \in Calls
           /\ events[i].state = "Started"
           /\ events[i + 1].state = "Ended"

\* the payloads of the events 1..i, concatenated
RECURSIVE Payloads(_)
Payloads(i) == IF i = 0 THEN <<>> ELSE Payloads(i - 1) \o events[i].data

\* C19 (as claimed): with output_idle_frame = true, all payloads returned so
\* far followed by the result buffer are the frames submitted so far, for
\* every start_frame_rollback >= 0.
C19_FrameConservation ==
    (phase = "single" /\ stream_vad.output_idle_frame) =>
        Payloads(Len(events)) \o stream_vad.vad_result_buffer = inputs

====
